---- MODULE Spec2Model ----
(***************************************************************************)
(* Flow: cross-border FX payment platform.                                 *)
(*                                                                         *)
(* State machine of the FX quote engine (FXService, FXQuoteRepository,     *)
(* MockFXProvider, AuditRepository) and of the payment pages               *)
(* (4_Payments.py, 5_Approvals.py) over the tables of models.py.           *)
(*                                                                         *)
(* Units: rates are integers in 1/10000 (Decimal quantized to 0.0001),     *)
(* money amounts are integers in 1/100 (Decimal quantized to 0.01), the    *)
(* markup fraction is an integer in 1/10000 (0.005 = 50), and time is an   *)
(* integer number of clock ticks of datetime.utcnow().                     *)
(***************************************************************************)
EXTENDS Integers, Sequences, FiniteSets, TLC

VARIABLES
    now,        \* datetime.utcnow()
    quotes,     \* table fx_quotes: sequence of rows, row i has id i
    audit,      \* table audit_logs: sequence of rows
    ret,        \* what the service call made at this instant returned
    inp,        \* inputs of a rate computation (numeric specification)
    out,        \* results of a rate computation (numeric specification)
    payments,   \* table payments: sequence of rows
    approvals,  \* table payment_approvals: sequence of rows
    ui,         \* per browser session: the user, what the handler displayed
    calls,      \* per caller: the is_quote_valid call it has in progress
    fixer,      \* FixerIOProvider: its _cache and the HTTP requests it sent
    bank_accounts  \* table beneficiary_bank_accounts and the repository
                   \* calls in progress on it, per caller

vars ==
    <<now, quotes, audit, ret, inp, out, payments, approvals, ui, calls,
      fixer, bank_accounts>>

----------------------------------------------------------------------------
(* Bounds of the model *)

MaxTime == 4
MaxQuotes == 2
MaxRequests == 3
MaxAmount == 60
MaxAccounts == 3

----------------------------------------------------------------------------
(* Program constants *)

\* config.FX_MARKUP_PERCENTAGE default "0.005", in 1/10000
FX_MARKUP_PERCENTAGE == 50

\* Decimal("0.0001") and Decimal("0.01") as divisors of the scaled integers
RateScale == 10000

\* Python None where an id is expected (ids start at 1)
None == 0

----------------------------------------------------------------------------
(* Decimal arithmetic *)

\* Decimal.quantize under the default context (ROUND_HALF_EVEN): n / d
\* rounded to an integer, n >= 0, d > 0.
quantize(n, d) ==
    LET q == n \div d
        r == n % d
    IN  IF 2 * r > d THEN q + 1
        ELSE IF 2 * r < d THEN q
        ELSE IF q % 2 = 0 THEN q ELSE q + 1

\* fx_service.py 75-76: markup_rate = base_rate * (1 + markup);
\* final_rate = markup_rate.quantize(Decimal("0.0001"))
final_rate_of(base_rate, markup) ==
    quantize(base_rate * (RateScale + markup), RateScale)

\* The other rounding order: the markup applied to the converted amount.
target_amount_markup_last(amount, base_rate, markup) ==
    quantize(quantize(amount * base_rate, RateScale) * (RateScale + markup),
             RateScale)

\* fx_service.py 79: target_amount = (amount * final_rate).quantize(0.01)
target_amount_of(amount, base_rate, markup) ==
    quantize(amount * final_rate_of(base_rate, markup), RateScale)

----------------------------------------------------------------------------
(* Parts of the state that are idle until an operation uses them *)

\* threads or processes that call is_quote_valid at the same time
Callers == {"a", "b"}

\* no is_quote_valid call in progress
Idle == [pc |-> "idle", quote |-> 0, is_expired |-> FALSE, past |-> FALSE,
         result |-> "none"]

NoCalls == [p \in Callers |-> Idle]

\* currency pairs passed to FixerIOProvider; the API quotes upper-case codes
FixerPairs ==
    {<<"EUR", "GBP">>, <<"GBP", "EUR">>, <<"GBP", "GBP">>, <<"eur", "GBP">>,
     <<"XXX", "EUR">>}

\* FixerIOProvider.__init__ 210: self._cache = {}, and no request sent yet
NoFixer ==
    [cache |-> [k \in FixerPairs |-> [cached |-> FALSE, rate |-> 0, at |-> 0]],
     requests |-> 0]

\* no BeneficiaryBankAccountRepository call in progress
NoBankCall ==
    [pc |-> "idle", account_id |-> 0,
     account_data |-> [beneficiary_id |-> 0, is_default |-> FALSE]]

\* table beneficiary_bank_accounts empty, every caller idle
NoBankAccounts == [rows |-> << >>, sessions |-> [p \in Callers |-> NoBankCall]]

----------------------------------------------------------------------------
(* Rate computation alone: the inputs are drawn in Init, one action applies *)
(* the computation of request_quote.                                        *)

\* Raw provider rates (MockFXProvider.get_rate quantizes them to 0.0001)
RateInputs == {8584, 11650, 11700, 12720}

\* Markup fractions a deployment may configure (FX_MARKUP_PERCENTAGE)
MarkupInputs == {0, 25, FX_MARKUP_PERCENTAGE}

\* Amounts in 1/100: every small amount, and 1,000.00
AmountInputs == (0 .. MaxAmount) \cup {100000}

NumInit ==
    /\ now = 0
    /\ quotes = << >>
    /\ audit = << >>
    /\ ret = [op |-> "none", quote |-> None, ok |-> TRUE, error |-> "",
              value |-> 0, inverse_rate |-> 0, rows |-> {},
              stats |-> [total_quotes |-> 0, expired_quotes |-> 0,
                         active_quotes |-> 0]]
    /\ payments = << >>
    /\ approvals = << >>
    /\ ui = << >>
    /\ calls = NoCalls
    /\ fixer = NoFixer
    /\ bank_accounts = NoBankAccounts
    /\ inp \in [base_rate : RateInputs, markup : MarkupInputs,
                amount : AmountInputs]
    /\ out = [done |-> FALSE, final_rate |-> 0, target_amount |-> 0]

\* fx_service.py 73-79
ComputeQuoteAmounts ==
    /\ ~out.done
    /\ out' = [done |-> TRUE,
               final_rate |-> final_rate_of(inp.base_rate, inp.markup),
               target_amount |->
                   target_amount_of(inp.amount, inp.base_rate, inp.markup)]
    /\ UNCHANGED <<now, quotes, audit, ret, inp, payments, approvals, ui,
                   calls, fixer,
                   bank_accounts>>

----------------------------------------------------------------------------
(* Quote engine: FXService over FXQuoteRepository and AuditRepository *)

Companies == {1, 2}

\* users of seed_data.py, by id
Users == {1, 2, 3}

\* currency pairs a caller may pass; "XXX" is not in BASE_RATES
CurrencyPairs ==
    {<<"GBP", "EUR">>, <<"GBP", "GBP">>, <<"XXX", "EUR">>, <<"GBP", "XXX">>,
     <<"gbp", "eur">>}

\* MockFXProvider.BASE_RATES (the codes the model uses)
BASE_RATES == {"GBP", "EUR"}

\* MockFXProvider.get_rate 86-93: the cross rate with a random fluctuation of
\* +-0.5%, quantized to 0.0001: any of these values may come back.
ProviderRates(from_currency, to_currency) ==
    IF from_currency \in {"GBP", "gbp"} /\ to_currency \in {"EUR", "eur"}
    THEN {11650, 11700}
    ELSE {RateScale}

AllProviderRates ==
    UNION {ProviderRates(p[1], p[2]) : p \in CurrencyPairs}

\* amounts and validity windows callers pass in the quote-engine runs
QuoteAmounts == {0, 10000}
ValiditySeconds == {1, 2}

\* validity_seconds is an int the call never validates: 0 and negative
\* windows are accepted as well
AcceptedValidity == {-1, 0, 1, 2}

\* What the persistence layer does on a commit
DbOutcomes == {"ok", "quote_insert_fails", "audit_insert_fails"}

\* get_quote_statistics 215-220: the statistics of no quotes; ret.stats
\* holds the dictionary a call returned
NoStatistics ==
    [total_quotes |-> 0, expired_quotes |-> 0, active_quotes |-> 0]

NoReturn ==
    [op |-> "none", quote |-> None, ok |-> TRUE, error |-> "", value |-> 0,
     inverse_rate |-> 0, rows |-> {}, stats |-> NoStatistics]

\* ret holds what the call made at the current instant returned
Returned(op, quote, ok, error, value) ==
    [op |-> op, quote |-> quote, ok |-> ok, error |-> error, value |-> value,
     inverse_rate |-> 0, rows |-> {}, stats |-> NoStatistics]

\* what a query returned: the ids of its rows (their order, created_at
\* descending, is left out)
ReturnedRows(op, rows) ==
    [Returned(op, None, TRUE, "", 0) EXCEPT !.rows = rows]

\* A plausible slip: the audit row is built but never added to the session.
AuditRepository_create_replacing(table, audit_data) ==
    IF Len(table) = 0
    THEN <<audit_data>>
    ELSE [table EXCEPT ![Len(table)] = audit_data]

AuditRepository_create_dropped(table, audit_data) == table

\* AuditRepository.create: add, commit, refresh
AuditRepository_create(table, audit_data) == Append(table, audit_data)

\* FXQuoteRepository.create: add, commit, refresh; the row gets the next id
FXQuoteRepository_create(table, quote_data) ==
    Append(table, [id |-> Len(table) + 1] @@ quote_data)

\* str.upper() on the currency codes the model uses
upper(code) ==
    CASE code = "gbp" -> "GBP"
      [] code = "eur" -> "EUR"
      [] code = "xxx" -> "XXX"
      [] OTHER -> code

\* MockFXProvider.get_rate / get_quote: the text of the exception the
\* provider call raises, "" when it returns a quote. get_rate returns no
\* 'target_amount' for a same-currency pair (75-82) or a falsy amount (105),
\* and get_quote reads rate_info["target_amount"] (141).
provider_error(from_currency, to_currency, amount) ==
    IF upper(from_currency) \notin BASE_RATES
    THEN "Unsupported source currency"
    ELSE IF upper(to_currency) \notin BASE_RATES
    THEN "Unsupported target currency"
    ELSE IF upper(from_currency) = upper(to_currency) \/ amount = 0
    THEN "'target_amount'"
    ELSE ""

\* FXService.request_quote
RequestQuote(company_id, from_currency, to_currency, amount, user_id, validity_seconds, base_rate, db) ==
    LET err == provider_error(from_currency, to_currency, amount)
        final_rate == final_rate_of(base_rate, FX_MARKUP_PERCENTAGE)
        target_amount ==
            target_amount_of(amount, base_rate, FX_MARKUP_PERCENTAGE)
        quote_data ==
            [company_id |-> company_id,
             source_currency |-> upper(from_currency),
             target_currency |-> upper(to_currency),
             rate |-> base_rate,
             markup_percentage |-> FX_MARKUP_PERCENTAGE,
             final_rate |-> final_rate,
             quote_expires_at |-> now + validity_seconds,
             is_expired |-> FALSE,
             created_at |-> now]
        created == FXQuoteRepository_create(quotes, quote_data)
        audit_data ==
            [user_id |-> user_id, entity_type |-> "fx_quote",
             entity_id |-> Len(created), action |-> "requested"]
    IN  /\ base_rate \in ProviderRates(from_currency, to_currency)
        /\ IF err # ""
           THEN /\ ret' = Returned("request_quote", None, FALSE, err, 0)
                /\ UNCHANGED <<quotes, audit,
                   bank_accounts>>
           ELSE IF db = "quote_insert_fails"
           THEN /\ ret' = Returned("request_quote", None, FALSE, "db error", 0)
                /\ UNCHANGED <<quotes, audit,
                   bank_accounts>>
           ELSE /\ Len(quotes) < MaxQuotes
                /\ quotes' = created
                /\ IF db = "audit_insert_fails"
                   THEN /\ ret' = Returned("request_quote", None, FALSE,
                                           "db error", 0)
                        /\ UNCHANGED audit
                   ELSE /\ audit' = AuditRepository_create(audit, audit_data)
                        /\ ret' = Returned("request_quote", Len(created),
                                           TRUE, "", target_amount)
        /\ UNCHANGED <<now, inp, out, payments, approvals, ui, calls, fixer,
                   bank_accounts>>

\* A plausible slip: the flip written as a toggle of the stored flag
mark_expired_toggled(table, quote_id) ==
    IF quote_id \in DOMAIN table
    THEN [table EXCEPT ![quote_id].is_expired = ~@]
    ELSE table

\* FXQuoteRepository.mark_expired, as a change of the table
mark_expired_rows(table, quote_id) ==
    IF quote_id \in DOMAIN table
    THEN [table EXCEPT ![quote_id].is_expired = TRUE]
    ELSE table

\* FXQuoteRepository.mark_expired called on its own
MarkExpired(quote_id) ==
    /\ quotes' = mark_expired_rows(quotes, quote_id)
    /\ ret' = Returned("mark_expired", quote_id, quote_id \in DOMAIN quotes,
                       "", 0)
    /\ UNCHANGED <<now, audit, inp, out, payments, approvals, ui,
                   calls, fixer,
                   bank_accounts>>

\* the comparison of is_quote_valid: quote.quote_expires_at < utcnow()
expiry_passed(quote, t) == quote.quote_expires_at < t

\* FXService.is_quote_valid on the row with this id
IsQuoteValid(quote_id) ==
    /\ quote_id \in DOMAIN quotes
    /\ LET quote == quotes[quote_id]
       IN  IF quote.is_expired
           THEN /\ ret' = Returned("is_quote_valid", quote_id, TRUE, "", 0)
                /\ UNCHANGED quotes
           ELSE IF expiry_passed(quote, now)
           THEN /\ quotes' = mark_expired_rows(quotes, quote_id)
                /\ ret' = Returned("is_quote_valid", quote_id, TRUE, "", 0)
           ELSE /\ ret' = Returned("is_quote_valid", quote_id, TRUE, "", 1)
                /\ UNCHANGED quotes
    /\ UNCHANGED <<now, audit, inp, out, payments, approvals, ui,
                   calls, fixer,
                   bank_accounts>>

\* FXService.get_quote 117-127: caller p loads the row into an FXQuote
\* object of its own session; the object keeps the flag as it was read
GetQuote(p, quote_id) ==
    /\ calls[p].pc \in {"idle", "done"}
    /\ quote_id \in DOMAIN quotes
    /\ calls' = [calls EXCEPT ![p] =
                    [pc |-> "loaded", quote |-> quote_id,
                     is_expired |-> quotes[quote_id].is_expired,
                     past |-> FALSE, result |-> "none"]]
    /\ UNCHANGED <<now, quotes, audit, ret, inp, out, payments, approvals, ui,
                   fixer,
                   bank_accounts>>

\* is_quote_valid 169-170 on the object caller p holds; past records whether
\* the expiry had passed when the call began
CheckFlag(p) ==
    /\ calls[p].pc = "loaded"
    /\ LET began_past == expiry_passed(quotes[calls[p].quote], now)
       IN  calls' = [calls EXCEPT ![p] =
                        IF @.is_expired
                        THEN [@ EXCEPT !.pc = "done", !.past = began_past,
                                       !.result = "False"]
                        ELSE [@ EXCEPT !.pc = "time", !.past = began_past]]
    /\ UNCHANGED <<now, quotes, audit, ret, inp, out, payments, approvals, ui,
                   fixer,
                   bank_accounts>>

\* is_quote_valid 172 and 177
CheckTime(p) ==
    /\ calls[p].pc = "time"
    /\ calls' = [calls EXCEPT ![p] =
                    IF expiry_passed(quotes[@.quote], now)
                    THEN [@ EXCEPT !.pc = "mark"]
                    ELSE [@ EXCEPT !.pc = "done", !.result = "True"]]
    /\ UNCHANGED <<now, quotes, audit, ret, inp, out, payments, approvals, ui,
                   fixer,
                   bank_accounts>>

\* is_quote_valid 174-175: mark_expired reads the row again, sets the flag,
\* commits; it raises nothing when the flag is already set
MarkAndReturn(p) ==
    /\ calls[p].pc = "mark"
    /\ quotes' = mark_expired_rows(quotes, calls[p].quote)
    /\ calls' = [calls EXCEPT ![p] =
                    [@ EXCEPT !.pc = "done", !.is_expired = TRUE,
                              !.result = "False"]]
    /\ UNCHANGED <<now, audit, ret, inp, out, payments, approvals, ui, fixer,
                   bank_accounts>>

\* A plausible slip: the difference returned without the clamp at 0
time_remaining_unclamped(quote, valid, t) ==
    IF ~valid THEN 0 ELSE quote.quote_expires_at - t

\* get_quote_time_remaining 189-193: 0 when is_quote_valid returned False,
\* else max(0, int((quote_expires_at - utcnow()).total_seconds())); the
\* clock of the model counts whole seconds
time_remaining(quote, valid, t) ==
    IF ~valid THEN 0
    ELSE IF quote.quote_expires_at - t > 0 THEN quote.quote_expires_at - t
    ELSE 0

\* FXService.get_quote_time_remaining by caller p: the is_quote_valid call
\* of line 189 has returned (the steps above), and the subtraction reads the
\* clock again; ok tells what is_quote_valid had returned
GetQuoteTimeRemaining(p) ==
    /\ calls[p].pc = "done"
    /\ LET valid == calls[p].result = "True"
       IN  ret' = Returned("get_quote_time_remaining", calls[p].quote, valid,
                           "", time_remaining(quotes[calls[p].quote], valid,
                                              now))
    /\ calls' = [calls EXCEPT ![p] = Idle]
    /\ UNCHANGED <<now, quotes, audit, inp, out, payments, approvals, ui,
                   fixer,
                   bank_accounts>>

\* A plausible slip: the sweep filtered by one company, as the other
\* queries of the repository are
ExpireOldQuotes_of_company ==
    LET hit == {i \in DOMAIN quotes :
                   /\ quotes[i].company_id = 1
                   /\ ~quotes[i].is_expired /\ quotes[i].quote_expires_at < now}
    IN  /\ quotes' = [i \in DOMAIN quotes |->
                        IF i \in hit
                        THEN [quotes[i] EXCEPT !.is_expired = TRUE]
                        ELSE quotes[i]]
        /\ ret' = Returned("expire_old_quotes", None, TRUE, "",
                           Cardinality(hit))
        /\ UNCHANGED <<now, audit, inp, out, payments, approvals, ui,
                       calls, fixer,
                   bank_accounts>>

\* FXQuoteRepository.expire_old_quotes (FXService.expire_old_quotes)
ExpireOldQuotes ==
    LET hit == {i \in DOMAIN quotes :
                   ~quotes[i].is_expired /\ quotes[i].quote_expires_at < now}
    IN  /\ quotes' = [i \in DOMAIN quotes |->
                        IF i \in hit
                        THEN [quotes[i] EXCEPT !.is_expired = TRUE]
                        ELSE quotes[i]]
        /\ ret' = Returned("expire_old_quotes", None, TRUE, "",
                           Cardinality(hit))
        /\ UNCHANGED <<now, audit, inp, out, payments, approvals, ui,
                       calls, fixer,
                   bank_accounts>>

\* FXQuoteRepository.get_by_company (FXService.get_company_quotes): the
\* filter or_(is_expired == False, and_(is_expired == False, expires > now))
get_by_company(company_id, include_expired) ==
    {i \in DOMAIN quotes :
        /\ quotes[i].company_id = company_id
        /\ include_expired \/
              \/ ~quotes[i].is_expired
              \/ ~quotes[i].is_expired /\ quotes[i].quote_expires_at > now}

GetCompanyQuotes(company_id, include_expired) ==
    /\ ret' = [ReturnedRows("get_company_quotes",
                            get_by_company(company_id, include_expired))
                  EXCEPT !.value = IF include_expired THEN 1 ELSE 0]
    /\ UNCHANGED <<now, quotes, audit, inp, out, payments, approvals, ui,
                   calls, fixer,
                   bank_accounts>>

\* currency_pair arguments of get_active_quotes; << >> is None
PairFilters == {<< >>, <<"GBP", "EUR">>, <<"GBP", "GBP">>}

\* FXQuoteRepository.get_active_quotes (FXService.get_active_quotes)
get_active_quotes(company_id, currency_pair) ==
    {i \in DOMAIN quotes :
        /\ quotes[i].company_id = company_id
        /\ ~quotes[i].is_expired
        /\ quotes[i].quote_expires_at > now
        /\ currency_pair # << >> =>
               /\ quotes[i].source_currency = currency_pair[1]
               /\ quotes[i].target_currency = currency_pair[2]}

GetActiveQuotes(company_id, currency_pair) ==
    /\ ret' = ReturnedRows("get_active_quotes",
                           get_active_quotes(company_id, currency_pair))
    /\ UNCHANGED <<now, quotes, audit, inp, out, payments, approvals, ui,
                   calls, fixer,
                   bank_accounts>>

\* the days arguments of get_quote_statistics, in clock ticks (30 days
\* reach back before every quote, 0 only to quotes created now)
StatisticsDays == {0, 30}

\* FXQuoteRepository.get_quote_statistics (FXService.get_quote_statistics)
get_quote_statistics(company_id, days) ==
    LET found == {i \in DOMAIN quotes :
                     /\ quotes[i].company_id = company_id
                     /\ quotes[i].created_at >= now - days}
    IN  [total_quotes |-> Cardinality(found),
         expired_quotes |->
             Cardinality({i \in found : quotes[i].is_expired}),
         active_quotes |->
             Cardinality({i \in found : ~quotes[i].is_expired})]

GetQuoteStatistics(company_id, days) ==
    /\ ret' = [ReturnedRows("get_quote_statistics", {})
                  EXCEPT !.quote = company_id, !.value = days,
                         !.stats = get_quote_statistics(company_id, days)]
    /\ UNCHANGED <<now, quotes, audit, inp, out, payments, approvals, ui,
                   calls, fixer,
                   bank_accounts>>

\* A plausible slip: the conversion redone at the rate of the newest quote
\* of the same pair instead of the quote passed in
calculate_amount_at_latest_rate(quote, source_amount) ==
    LET same == {i \in DOMAIN quotes :
                    /\ quotes[i].source_currency = quote.source_currency
                    /\ quotes[i].target_currency = quote.target_currency}
        latest == quotes[CHOOSE i \in same : \A j \in same : j <= i]
        target_amount == quantize(source_amount * latest.final_rate, RateScale)
        base_target_amount == quantize(source_amount * latest.rate, RateScale)
    IN  [source_amount |-> source_amount,
         target_amount |-> target_amount,
         exchange_rate |-> latest.final_rate,
         base_rate |-> latest.rate,
         markup_fee |-> target_amount - base_target_amount,
         markup_percentage |-> latest.markup_percentage * 100]

\* FXService.calculate_amount 208-222: amounts in 1/100, rates in 1/10000,
\* the markup percentage in 1/10000 of a percent
calculate_amount(quote, source_amount) ==
    LET target_amount == quantize(source_amount * quote.final_rate, RateScale)
        base_target_amount == quantize(source_amount * quote.rate, RateScale)
    IN  [source_amount |-> source_amount,
         target_amount |-> target_amount,
         exchange_rate |-> quote.final_rate,
         base_rate |-> quote.rate,
         markup_fee |-> target_amount - base_target_amount,
         markup_percentage |-> quote.markup_percentage * 100]

\* source amounts passed to calculate_amount, in 1/100
SourceAmounts == {1, 333, 10000}

\* FXService.calculate_amount on the stored quote with this id; the
\* dictionary it returns is held in ret.stats
CalculateAmount(quote_id, source_amount) ==
    /\ quote_id \in DOMAIN quotes
    /\ ret' = [Returned("calculate_amount", quote_id, TRUE, "", source_amount)
                  EXCEPT !.stats =
                             calculate_amount(quotes[quote_id], source_amount)]
    /\ UNCHANGED <<now, quotes, audit, inp, out, payments, approvals, ui,
                   calls, fixer,
                   bank_accounts>>

\* FXService.get_rate_breakdown 274-287: markup_percentage in 1/100 of a
\* percent, markup_amount and inverse_rate in 1/10000
get_rate_breakdown(quote) ==
    [base_rate |-> quote.rate,
     markup_percentage |-> quantize(quote.markup_percentage * 100, 100),
     markup_amount |-> quantize(quote.rate * quote.markup_percentage,
                                RateScale),
     final_rate |-> quote.final_rate,
     currency_pair |-> <<quote.source_currency, quote.target_currency>>,
     inverse_rate |-> quantize(RateScale * RateScale, quote.final_rate)]

\* A plausible slip: the breakdown made to check validity first, as
\* get_quote_time_remaining does
GetRateBreakdown_checking_validity(quote_id) ==
    /\ quote_id \in DOMAIN quotes
    /\ quotes' = IF ~quotes[quote_id].is_expired
                    /\ expiry_passed(quotes[quote_id], now)
                 THEN mark_expired_rows(quotes, quote_id)
                 ELSE quotes
    /\ ret' = [Returned("get_rate_breakdown", quote_id, TRUE, "", 0)
                  EXCEPT !.stats = get_rate_breakdown(quotes[quote_id])]
    /\ UNCHANGED <<now, audit, inp, out, payments, approvals, ui, calls,
                   fixer,
                   bank_accounts>>

\* FXService.get_rate_breakdown on the stored quote with this id
GetRateBreakdown(quote_id) ==
    /\ quote_id \in DOMAIN quotes
    /\ ret' = [Returned("get_rate_breakdown", quote_id, TRUE, "", 0)
                  EXCEPT !.stats = get_rate_breakdown(quotes[quote_id])]
    /\ UNCHANGED <<now, quotes, audit, inp, out, payments, approvals, ui,
                   calls, fixer,
                   bank_accounts>>

\* dictionaries a caller may pass to FXQuoteRepository.update
UpdateData ==
    {[is_expired |-> FALSE], [is_expired |-> TRUE], [no_such_column |-> 1]}

\* FXQuoteRepository.update 101-103: setattr for every key the row has
setattr_all(row, quote_data) ==
    [k \in DOMAIN row |->
        IF k \in DOMAIN quote_data THEN quote_data[k] ELSE row[k]]

\* FXQuoteRepository.update
Update(quote_id, quote_data) ==
    /\ IF quote_id \in DOMAIN quotes
       THEN /\ quotes' = [quotes EXCEPT
                             ![quote_id] = setattr_all(@, quote_data)]
            /\ ret' = Returned("update", quote_id, TRUE, "", 0)
       ELSE /\ ret' = Returned("update", None, FALSE, "", 0)
            /\ UNCHANGED quotes
    /\ UNCHANGED <<now, audit, inp, out, payments, approvals, ui,
                   calls, fixer,
                   bank_accounts>>

\* ui[s] holds what the handler run in session s at the current instant
\* displayed, for the user logged in to that session
Displayed(user_id, handler, msg, quote) ==
    [user_id |-> user_id, handler |-> handler, msg |-> msg, quote |-> quote]

\* the clock advances
Tick ==
    /\ now < MaxTime
    /\ now' = now + 1
    /\ ret' = NoReturn
    /\ ui' = [s \in DOMAIN ui |-> Displayed(ui[s].user_id, "none", "", None)]
    /\ UNCHANGED <<quotes, audit, inp, out, payments, approvals, calls, fixer,
                   bank_accounts>>

NoComputation ==
    /\ inp = [base_rate |-> RateScale, markup |-> 0, amount |-> 0]
    /\ out = [done |-> TRUE, final_rate |-> 0, target_amount |-> 0]

NoPayments ==
    /\ payments = << >>
    /\ approvals = << >>
    /\ ui = << >>

Init ==
    /\ now = 0
    /\ quotes = << >>
    /\ audit = << >>
    /\ ret = NoReturn
    /\ NoComputation
    /\ NoPayments
    /\ calls = NoCalls
    /\ fixer = NoFixer
    /\ bank_accounts = NoBankAccounts

\* Quote lifecycle: one caller, every operation on quotes, the clock
Next ==
    \/ \E p \in CurrencyPairs, v \in ValiditySeconds :
          RequestQuote(1, p[1], p[2], 10000, 1, v, 11650, "ok")
    \/ \E q \in 1 .. MaxQuotes : IsQuoteValid(q)
    \/ \E q \in 1 .. MaxQuotes : MarkExpired(q)
    \/ ExpireOldQuotes
    \/ \E q \in 1 .. MaxQuotes, d \in UpdateData : Update(q, d)
    \/ \E c \in Companies, e \in BOOLEAN : GetCompanyQuotes(c, e)
    \/ \E c \in Companies, f \in PairFilters : GetActiveQuotes(c, f)
    \/ \E c \in Companies, d \in StatisticsDays : GetQuoteStatistics(c, d)
    \/ Tick

Spec == Init /\ [][Next]_vars

\* Quote requests: every caller, input and persistence outcome
AuditNext ==
    \/ \E c \in Companies, p \in CurrencyPairs, a \in QuoteAmounts,
          u \in Users, db \in DbOutcomes :
          \E r \in ProviderRates(p[1], p[2]) :
              RequestQuote(c, p[1], p[2], a, u, 2, r, db)

SpecAudit == Init /\ [][AuditNext]_vars

\* Concurrent validity checks: callers run is_quote_valid step by step
\* while the sweep runs and the clock advances
ConcNext ==
    \/ RequestQuote(1, "GBP", "EUR", 10000, 1, 2, 11650, "ok")
    \/ \E p \in Callers, q \in 1 .. MaxQuotes : GetQuote(p, q)
    \/ \E p \in Callers : CheckFlag(p)
    \/ \E p \in Callers : CheckTime(p)
    \/ \E p \in Callers : MarkAndReturn(p)
    \/ ExpireOldQuotes
    \/ Tick

SpecConc == Init /\ [][ConcNext]_vars

\* Housekeeping: quotes of every company, validity checks, the sweep
SweepNext ==
    \/ \E c \in Companies, v \in ValiditySeconds :
          RequestQuote(c, "GBP", "EUR", 10000, 1, v, 11650, "ok")
    \/ \E q \in 1 .. MaxQuotes : IsQuoteValid(q)
    \/ ExpireOldQuotes
    \/ Tick

SpecSweep == Init /\ [][SweepNext]_vars

\* Time remaining: one caller whose validity check and subtraction are
\* separated by whatever the clock and the sweep do in between
RemainNext ==
    \/ \E v \in ValiditySeconds :
          RequestQuote(1, "GBP", "EUR", 10000, 1, v, 11650, "ok")
    \/ \E q \in 1 .. MaxQuotes : GetQuote("a", q)
    \/ CheckFlag("a")
    \/ CheckTime("a")
    \/ MarkAndReturn("a")
    \/ GetQuoteTimeRemaining("a")
    \/ ExpireOldQuotes
    \/ Tick

SpecRemain == Init /\ [][RemainNext]_vars

\* Conversions on stored quotes while the provider's rate moves: quotes at
\* either rate, validity checks, breakdowns and conversions, the clock
CalcNext ==
    \/ \E r \in ProviderRates("GBP", "EUR") :
          RequestQuote(1, "GBP", "EUR", 10000, 1, 1, r, "ok")
    \/ \E q \in 1 .. MaxQuotes : IsQuoteValid(q)
    \/ \E q \in 1 .. MaxQuotes, a \in SourceAmounts : CalculateAmount(q, a)
    \/ \E q \in 1 .. MaxQuotes : GetRateBreakdown(q)
    \/ Tick

SpecCalc == Init /\ [][CalcNext]_vars

\* Quote requests with every validity window the call accepts
ValidityNext ==
    \/ \E v \in AcceptedValidity, r \in ProviderRates("GBP", "EUR") :
          RequestQuote(1, "GBP", "EUR", 10000, 1, v, r, "ok")
    \/ \E q \in 1 .. MaxQuotes : IsQuoteValid(q)
    \/ Tick

SpecValidity == Init /\ [][ValidityNext]_vars

NumNext == ComputeQuoteAmounts

SpecNum == NumInit /\ [][NumNext]_vars

----------------------------------------------------------------------------
(* Rate sources: MockFXProvider.get_rate behind FXService.get_live_rate,   *)
(* and FixerIOProvider.get_rate with its cache and its HTTP requests       *)

\* FXService.get_live_rate(from_currency, to_currency) with no amount:
\* MockFXProvider.get_rate 64-102; a ValueError reaches the caller
GetLiveRate(from_currency, to_currency, rate) ==
    /\ rate \in ProviderRates(from_currency, to_currency)
    /\ ret' =
          IF upper(from_currency) \notin BASE_RATES
          THEN Returned("get_live_rate", None, FALSE,
                        "Unsupported source currency", 0)
          ELSE IF upper(to_currency) \notin BASE_RATES
          THEN Returned("get_live_rate", None, FALSE,
                        "Unsupported target currency", 0)
          ELSE IF upper(from_currency) = upper(to_currency)
          THEN [Returned("get_live_rate", None, TRUE, "", RateScale)
                   EXCEPT !.inverse_rate = RateScale]
          ELSE [Returned("get_live_rate", None, TRUE, "", rate)
                   EXCEPT !.inverse_rate =
                              quantize(RateScale * RateScale, rate)]
    /\ UNCHANGED <<now, quotes, audit, inp, out, payments, approvals, ui,
                   calls, fixer,
                   bank_accounts>>

\* FixerIOProvider rates are Decimals quantized to 0.00000001
FixerScale == 100000000

\* the "rates" object of a Fixer.io /latest answer (base EUR), in tenths:
\* EUR 1.0, GBP 0.9; the API knows no other code and keys are upper-case
ApiRates == [EUR |-> 10, GBP |-> 9]
ApiScale == 10

\* self._cache_ttl, in seconds, and the seconds one clock tick stands for
\* where the cache is concerned
CacheTtl == 1800
SecondsPerTick == 900

\* what the HTTP request of get_rate meets
Responses == {"ok", "timeout", "http_error", "malformed", "api_error"}

\* FixerIOProvider.get_rate 277-322 on a successful answer: the rate, or
\* None (0) when a symbol is missing from "rates"
fixer_rate(from_currency, to_currency) ==
    IF from_currency = "EUR"
    THEN IF to_currency \notin DOMAIN ApiRates THEN None
         ELSE ApiRates[to_currency] * (FixerScale \div ApiScale)
    ELSE IF from_currency \notin DOMAIN ApiRates
            \/ to_currency \notin DOMAIN ApiRates
         THEN None
         ELSE quantize(ApiRates[to_currency] * FixerScale,
                       ApiRates[from_currency])

cache_fresh_inclusive(entry, t) ==
    entry.cached /\ (t - entry.at) * SecondsPerTick <= CacheTtl

\* FixerIOProvider.get_rate 265-268: the pair is in the cache and its entry
\* is younger than the TTL
cache_fresh(entry, t) ==
    entry.cached /\ (t - entry.at) * SecondsPerTick < CacheTtl

\* FixerIOProvider.get_rate; None is returned as value None with ok FALSE
FixerGetRate(from_currency, to_currency, response) ==
    LET key == <<from_currency, to_currency>>
        hit == cache_fresh(fixer.cache[key], now)
        rate == fixer_rate(from_currency, to_currency)
    IN  /\ IF hit
           THEN /\ ret' = Returned("fixer_get_rate", None, TRUE, "",
                                   fixer.cache[key].rate)
                /\ UNCHANGED fixer
           ELSE /\ fixer.requests < MaxRequests
                /\ IF response = "ok" /\ rate # None
                   THEN /\ fixer' =
                              [cache |-> [fixer.cache EXCEPT ![key] =
                                             [cached |-> TRUE, rate |-> rate,
                                              at |-> now]],
                               requests |-> fixer.requests + 1]
                        /\ ret' = Returned("fixer_get_rate", None, TRUE, "",
                                           rate)
                   ELSE /\ fixer' = [fixer EXCEPT !.requests = @ + 1]
                        /\ ret' = Returned("fixer_get_rate", None, FALSE,
                                           "", None)
        /\ UNCHANGED <<now, quotes, audit, inp, out, payments, approvals,
                       ui, calls,
                   bank_accounts>>

\* Rate requests to both sources, and the clock
RateNext ==
    \/ \E p \in CurrencyPairs : \E r \in ProviderRates(p[1], p[2]) :
          GetLiveRate(p[1], p[2], r)
    \/ \E p \in FixerPairs, response \in Responses :
          FixerGetRate(p[1], p[2], response)
    \/ Tick

SpecRate == Init /\ [][RateNext]_vars

----------------------------------------------------------------------------
(* Payment pages: 4_Payments.py and 5_Approvals.py over the payments table *)

\* seed_data.py: the role of each seeded user
UserRole(user_id) ==
    CASE user_id = 1 -> "admin"
      [] user_id = 2 -> "maker"
      [] OTHER -> "approver"

\* 4_Payments.py 20 and 5_Approvals.py 21
can_create(user_id) == UserRole(user_id) \in {"admin", "maker"}
can_approve(user_id) == UserRole(user_id) \in {"admin", "approver"}

\* browser sessions, each with its own st.session_state
Sessions == {"s1", "s2"}

\* 4_Payments.py 36-46: the statuses of a payment
PaymentStatuses ==
    {"draft", "pending_approval", "approved", "processing", "completed",
     "failed", "rejected"}

\* The payment a page shows (PAY-001), as a row of the payments table. No
\* repository or service writes this table: the row is whatever is stored.
PaymentRows ==
    [id : {1}, created_by_user_id : {u \in Users : can_create(u)},
     fx_quote_id : {None, 1}, status : PaymentStatuses, failure_reason : {""}]

\* the quote payment 1 may carry: requested by user 2 at time 0, valid 2 ticks
PayQuotes ==
    FXQuoteRepository_create(<< >>,
        [company_id |-> 1, source_currency |-> "GBP",
         target_currency |-> "EUR", rate |-> 11650,
         markup_percentage |-> FX_MARKUP_PERCENTAGE,
         final_rate |-> final_rate_of(11650, FX_MARKUP_PERCENTAGE),
         quote_expires_at |-> 2, is_expired |-> FALSE, created_at |-> 0])

PayInit ==
    /\ now = 0
    /\ quotes = PayQuotes
    /\ audit = AuditRepository_create(<< >>,
                   [user_id |-> 2, entity_type |-> "fx_quote", entity_id |-> 1,
                    action |-> "requested"])
    /\ ret = NoReturn
    /\ NoComputation
    /\ payments \in {<<row>> : row \in PaymentRows}
    /\ approvals = << >>
    /\ ui \in [Sessions ->
                 {Displayed(u, "none", "", None) : u \in Users}]
    /\ calls = NoCalls
    /\ fixer = NoFixer
    /\ bank_accounts = NoBankAccounts

\* 4_Payments.py 360-365: "Save as Draft"
SaveDraft(s) ==
    /\ can_create(ui[s].user_id)
    /\ ui' = [ui EXCEPT ![s] = Displayed(@.user_id, "save_draft",
                                         "Payment saved as draft!", None)]
    /\ UNCHANGED <<now, quotes, audit, ret, inp, out, payments, approvals,
                   calls, fixer,
                   bank_accounts>>

\* 4_Payments.py 307-318, 367-373: "Submit for Approval" with the quote
\* chosen in the form (None: "A new quote will be requested")
SubmitForApproval(s, quote_id) ==
    /\ can_create(ui[s].user_id)
    /\ ui' = [ui EXCEPT ![s] = Displayed(@.user_id, "submit",
                                  "Payment submitted for approval!", quote_id)]
    /\ UNCHANGED <<now, quotes, audit, ret, inp, out, payments, approvals,
                   calls, fixer,
                   bank_accounts>>

\* 4_Payments.py 444-449: "Edit Payment"
EditPayment(s) ==
    /\ UserRole(ui[s].user_id) = "maker"
    /\ ui' = [ui EXCEPT ![s] = Displayed(@.user_id, "edit",
                                  "Only draft payments can be edited", None)]
    /\ UNCHANGED <<now, quotes, audit, ret, inp, out, payments, approvals,
                   calls, fixer,
                   bank_accounts>>

\* 4_Payments.py 451-453: "Cancel Payment"
CancelPayment(s) ==
    /\ UserRole(ui[s].user_id) = "maker"
    /\ ui' = [ui EXCEPT ![s] = Displayed(@.user_id, "cancel",
                                  "This will cancel the payment", None)]
    /\ UNCHANGED <<now, quotes, audit, ret, inp, out, payments, approvals,
                   calls, fixer,
                   bank_accounts>>

\* 5_Approvals.py 183-189: "Approve Payment", enabled once the five
\* checklist boxes are ticked
ApprovePayment(s, all_checked) ==
    /\ can_approve(ui[s].user_id)
    /\ all_checked
    /\ ui' = [ui EXCEPT ![s] = Displayed(@.user_id, "approve",
                                  "Payment PAY-001 approved successfully!",
                                  None)]
    /\ UNCHANGED <<now, quotes, audit, ret, inp, out, payments, approvals,
                   calls, fixer,
                   bank_accounts>>

\* A plausible slip: the rejection reported whatever the comment field holds
RejectPayment_any_comment(s, approver_comments) ==
    /\ can_approve(ui[s].user_id)
    /\ ui' = [ui EXCEPT ![s] = Displayed(@.user_id, "reject",
                                         "Payment PAY-001 rejected", None)]
    /\ UNCHANGED <<now, quotes, audit, ret, inp, out, payments, approvals,
                   calls, fixer,
                   bank_accounts>>

\* 5_Approvals.py 191-199: "Reject Payment"
RejectPayment(s, approver_comments) ==
    /\ can_approve(ui[s].user_id)
    /\ ui' = [ui EXCEPT ![s] =
                 IF approver_comments # ""
                 THEN Displayed(@.user_id, "reject",
                                "Payment PAY-001 rejected", None)
                 ELSE Displayed(@.user_id, "reject",
                                "Please add comments", None)]
    /\ UNCHANGED <<now, quotes, audit, ret, inp, out, payments, approvals,
                   calls, fixer,
                   bank_accounts>>

PayNext ==
    \/ \E s \in Sessions : SaveDraft(s)
    \/ \E s \in Sessions, q \in {None, 1} : SubmitForApproval(s, q)
    \/ \E s \in Sessions : EditPayment(s)
    \/ \E s \in Sessions : CancelPayment(s)
    \/ \E s \in Sessions, all_checked \in BOOLEAN :
          ApprovePayment(s, all_checked)
    \/ \E s \in Sessions, c \in {"", "wrong beneficiary"} : RejectPayment(s, c)
    \/ Tick

SpecPay == PayInit /\ [][PayNext]_vars

----------------------------------------------------------------------------
(* Cost Breakdown of the payment form (4_Payments.py 253-344): float      *)
(* arithmetic, each value shown with two decimals                          *)

\* fx_rate = 1.1650 and fee = source_amount * 0.001
MockFxRate == 11650
FeeDivisor == 1000

\* f"{x:,.2f}" of the float n / d, in 1/100: the nearest value; where the
\* decimal value is a tie the binary float lies on either side of it
format2(n, d) ==
    IF 2 * (n % d) = d THEN {n \div d, n \div d + 1} ELSE {quantize(n, d)}

\* the radio button of the form
AmountTypes == {"Fixed Source Amount", "Fixed Target Amount"}

\* amounts typed into the form, in 1/100: 100.00, 120.00, 140.00, ...
FormAmounts == {10000 + 2000 * k : k \in 0 .. MaxAmount}

CostInit ==
    /\ now = 0
    /\ quotes = << >>
    /\ audit = << >>
    /\ ret = NoReturn
    /\ NoPayments
    /\ calls = NoCalls
    /\ fixer = NoFixer
    /\ bank_accounts = NoBankAccounts
    /\ inp \in [amount_type : AmountTypes, amount : FormAmounts]
    /\ out = [done |-> FALSE, source_amount |-> 0, fee |-> 0,
              total_debit |-> 0]

\* 4_Payments.py 253-281 and 323-344: the three amounts of the breakdown as
\* they are shown; with a fixed target amount source_amount is
\* target_amount / fx_rate, unrounded
RenderCostBreakdown ==
    /\ ~out.done
    /\ LET fixed_source == inp.amount_type = "Fixed Source Amount"
           n == IF fixed_source THEN inp.amount ELSE inp.amount * RateScale
           d == IF fixed_source THEN 1 ELSE MockFxRate
           per_mille == RateScale \div FeeDivisor
       IN  \E source_amount \in format2(n, d) :
           \E fee \in IF fixed_source
                      THEN format2(inp.amount, FeeDivisor)
                      ELSE format2(inp.amount * per_mille, MockFxRate) :
           \E total_debit \in
                  IF fixed_source
                  THEN format2(inp.amount * (FeeDivisor + 1), FeeDivisor)
                  ELSE format2(inp.amount * per_mille * (FeeDivisor + 1),
                               MockFxRate) :
               out' = [done |-> TRUE, source_amount |-> source_amount,
                       fee |-> fee, total_debit |-> total_debit]
    /\ UNCHANGED <<now, quotes, audit, ret, inp, payments, approvals, ui,
                   calls, fixer,
                   bank_accounts>>

CostNext == RenderCostBreakdown

SpecCost == CostInit /\ [][CostNext]_vars

----------------------------------------------------------------------------
(* Bank accounts of a beneficiary (beneficiary_repository.py 192-293): each *)
(* caller has its own database session, each commit is one step            *)

Beneficiaries == {1, 2}

\* _unset_default_accounts 283-293: one UPDATE over the beneficiary's default
\* rows, committed
unset_default_accounts(rows, beneficiary_id) ==
    [i \in DOMAIN rows |->
        IF rows[i].beneficiary_id = beneficiary_id /\ rows[i].is_default
        THEN [rows[i] EXCEPT !.is_default = FALSE]
        ELSE rows[i]]

\* rows some caller is about to insert
PendingAdds ==
    {p \in Callers : bank_accounts.sessions[p].pc = "add"}

\* create 192-210, up to the commit of _unset_default_accounts when the new
\* account is a default one, the whole call otherwise
BankAccountCreate(p, beneficiary_id, is_default) ==
    /\ bank_accounts.sessions[p].pc = "idle"
    /\ Len(bank_accounts.rows) + Cardinality(PendingAdds) < MaxAccounts
    /\ LET account_data == [beneficiary_id |-> beneficiary_id,
                            is_default |-> is_default]
       IN  bank_accounts' =
               IF is_default
               THEN [rows |-> unset_default_accounts(bank_accounts.rows,
                                                     beneficiary_id),
                     sessions |-> [bank_accounts.sessions EXCEPT ![p] =
                                      [pc |-> "add", account_id |-> 0,
                                       account_data |-> account_data]]]
               ELSE [bank_accounts EXCEPT
                        !.rows = Append(@, account_data)]
    /\ UNCHANGED <<now, quotes, audit, ret, inp, out, payments, approvals, ui,
                   calls, fixer>>

\* create 206-210: add, commit, refresh
BankAccountAdd(p) ==
    /\ bank_accounts.sessions[p].pc = "add"
    /\ bank_accounts' =
           [rows |-> Append(bank_accounts.rows,
                            bank_accounts.sessions[p].account_data),
            sessions |-> [bank_accounts.sessions EXCEPT ![p] = NoBankCall]]
    /\ UNCHANGED <<now, quotes, audit, ret, inp, out, payments, approvals, ui,
                   calls, fixer>>

\* update 212-239 with account_data = {"is_default": is_default}: up to the
\* commit of _unset_default_accounts when is_default is true, the whole call
\* otherwise; an unknown id returns None
BankAccountUpdate(p, account_id, is_default) ==
    /\ bank_accounts.sessions[p].pc = "idle"
    /\ account_id \in DOMAIN bank_accounts.rows
    /\ bank_accounts' =
           IF is_default
           THEN [rows |-> unset_default_accounts(
                              bank_accounts.rows,
                              bank_accounts.rows[account_id].beneficiary_id),
                 sessions |-> [bank_accounts.sessions EXCEPT ![p] =
                                  [NoBankCall EXCEPT
                                      !.pc = "set",
                                      !.account_id = account_id]]]
           ELSE [bank_accounts EXCEPT
                    !.rows[account_id].is_default = FALSE]
    /\ UNCHANGED <<now, quotes, audit, ret, inp, out, payments, approvals, ui,
                   calls, fixer>>

\* set_default 259-273, up to the commit of _unset_default_accounts
BankAccountSetDefault(p, account_id) ==
    /\ bank_accounts.sessions[p].pc = "idle"
    /\ account_id \in DOMAIN bank_accounts.rows
    /\ bank_accounts' =
           [rows |-> unset_default_accounts(
                         bank_accounts.rows,
                         bank_accounts.rows[account_id].beneficiary_id),
            sessions |-> [bank_accounts.sessions EXCEPT ![p] =
                             [NoBankCall EXCEPT !.pc = "set",
                                                !.account_id = account_id]]]
    /\ UNCHANGED <<now, quotes, audit, ret, inp, out, payments, approvals, ui,
                   calls, fixer>>

\* update 233-238 and set_default 276-279: the flag of the caller's account
\* is set, commit, refresh
BankAccountCommit(p) ==
    /\ bank_accounts.sessions[p].pc = "set"
    /\ bank_accounts' =
           [rows |-> [bank_accounts.rows EXCEPT
                         ![bank_accounts.sessions[p].account_id].is_default =
                             TRUE],
            sessions |-> [bank_accounts.sessions EXCEPT ![p] = NoBankCall]]
    /\ UNCHANGED <<now, quotes, audit, ret, inp, out, payments, approvals, ui,
                   calls, fixer>>

BankNext ==
    \/ \E p \in Callers, b \in Beneficiaries, d \in BOOLEAN :
          BankAccountCreate(p, b, d)
    \/ \E p \in Callers : BankAccountAdd(p)
    \/ \E p \in Callers, a \in 1 .. MaxAccounts, d \in BOOLEAN :
          BankAccountUpdate(p, a, d)
    \/ \E p \in Callers, a \in 1 .. MaxAccounts : BankAccountSetDefault(p, a)
    \/ \E p \in Callers : BankAccountCommit(p)

SpecBank == Init /\ [][BankNext]_vars

----------------------------------------------------------------------------
(* Properties of the quote engine *)

Abs(x) == IF x < 0 THEN 0 - x ELSE x

\* r is n / d rounded half-even: nearest integer, the even one on a tie
IsRoundHalfEven(r, n, d) ==
    \/ 2 * Abs(r * d - n) < d
    \/ 2 * Abs(r * d - n) = d /\ r % 2 = 0

\* C1: is_quote_valid returns false for every t >= expiry (and the quote is
\* flagged expired afterwards), and true for every t < expiry while the
\* flag is unset.
C1_InvalidFromExpiryOn ==
    ret.op = "is_quote_valid" =>
        LET quote == quotes[ret.quote]
        IN  /\ now >= quote.quote_expires_at =>
                   ret.value = 0 /\ quote.is_expired
            /\ (now < quote.quote_expires_at /\ ~quote.is_expired) =>
                   ret.value = 1

\* C2: final_rate is base_rate * (1 + markup) rounded half-even to 4 places,
\* and the converted amount is amount * final_rate (the rate already
\* rounded) rounded half-even to 2 places; base 1.1650 with markup 0.005
\* gives 1.1708, and 1,000.00 then gives 1,170.80.
C2_RateRoundedThenAmount ==
    out.done =>
        /\ IsRoundHalfEven(out.final_rate,
                           inp.base_rate * (RateScale + inp.markup), RateScale)
        /\ IsRoundHalfEven(out.target_amount, inp.amount * out.final_rate,
                           RateScale)
        /\ (inp.base_rate = 11650 /\ inp.markup = 50) => out.final_rate = 11708
        /\ (inp.base_rate = 11650 /\ inp.markup = 50 /\ inp.amount = 100000)
               => out.target_amount = 117080

\* C2 witness: a computed quote where the other rounding order (markup
\* applied to the converted amount) would give a different amount.
C2_OrderMatters ==
    /\ out.done
    /\ inp.markup > 0
    /\ out.target_amount #
           target_amount_markup_last(inp.amount, inp.base_rate, inp.markup)

\* C8: a persisted quote is never deleted, its only mutation is is_expired
\* going from false to true, and is_expired never goes back to false.
C8_QuoteOnlyEverExpires ==
    [][\A i \in DOMAIN quotes :
          /\ i \in DOMAIN quotes'
          /\ \/ quotes'[i] = quotes[i]
             \/ /\ ~quotes[i].is_expired
                /\ quotes'[i] = [quotes[i] EXCEPT !.is_expired = TRUE]]_vars

\* C9: every successful request_quote adds exactly one quote row (not
\* expired, rate = the provider's rate, final_rate derived from it and the
\* configured markup) and exactly one audit row: fx_quote, the new quote's
\* id, 'requested', the requesting user.
C9_RequestPersistsQuoteAndAudit ==
    [][(ret'.op = "request_quote" /\ ret'.ok) =>
       \A c \in Companies, p \in CurrencyPairs, a \in QuoteAmounts,
          u \in Users, db \in DbOutcomes, r \in AllProviderRates :
          RequestQuote(c, p[1], p[2], a, u, 2, r, db) =>
              /\ Len(quotes') = Len(quotes) + 1
              /\ SubSeq(quotes', 1, Len(quotes)) = quotes
              /\ LET quote == quotes'[Len(quotes')]
                 IN  /\ quote.id = Len(quotes')
                     /\ ret'.quote = quote.id
                     /\ ~quote.is_expired
                     /\ quote.company_id = c
                     /\ quote.rate = r
                     /\ quote.markup_percentage = FX_MARKUP_PERCENTAGE
                     /\ IsRoundHalfEven(quote.final_rate,
                            r * (RateScale + FX_MARKUP_PERCENTAGE), RateScale)
              /\ Len(audit') = Len(audit) + 1
              /\ SubSeq(audit', 1, Len(audit)) = audit
              /\ audit'[Len(audit')] =
                     [user_id |-> u, entity_type |-> "fx_quote",
                      entity_id |-> Len(quotes'), action |-> "requested"]
              /\ Cardinality({i \in DOMAIN audit' :
                     /\ audit'[i].entity_type = "fx_quote"
                     /\ audit'[i].entity_id = Len(quotes')}) = 1]_vars

\* C9 witness: a second successful request, by another user
C9_TwoQuotesRequested ==
    /\ ret.op = "request_quote" /\ ret.ok /\ ret.quote = 2
    /\ Len(audit) = 2
    /\ audit[1].user_id # audit[2].user_id

\* C12: under any interleaving of is_quote_valid calls and sweeps, a call
\* that began when the quote's expiry had passed (quote_expires_at before
\* the current time) returns False, no call ends in an error, the quote is
\* flagged once such a call has returned, and only a quote whose expiry has
\* passed is ever flagged.
C12_ConcurrentFlipIdempotent ==
    /\ \A p \in Callers :
          calls[p].pc = "done" =>
              /\ calls[p].result \in {"True", "False"}
              /\ calls[p].past =>
                     /\ calls[p].result = "False"
                     /\ quotes[calls[p].quote].is_expired
    /\ \A i \in DOMAIN quotes :
          quotes[i].is_expired => expiry_passed(quotes[i], now)

\* C12 witness: two calls on the same quote both began after its expiry
\* and both returned False, and a sweep ran as well
C12_BothCallersFlipped ==
    /\ \A p \in Callers :
          /\ calls[p].pc = "done" /\ calls[p].past
          /\ calls[p].quote = 1
          /\ calls[p].result = "False"
    /\ ret.op = "expire_old_quotes"

\* C13: expire_old_quotes flags every quote, of whichever company, that is
\* not flagged and whose quote_expires_at is before the time of the call,
\* leaves every other quote as it was, and returns the number of quotes it
\* flagged; a sweep that follows a sweep at the same time returns 0.
C13_SweepFlagsAllPastExpiry ==
    [][ExpireOldQuotes =>
       LET hit == {i \in DOMAIN quotes :
                      ~quotes[i].is_expired /\ expiry_passed(quotes[i], now)}
       IN  /\ DOMAIN quotes' = DOMAIN quotes
           /\ \A i \in DOMAIN quotes :
                 quotes'[i] = IF i \in hit
                              THEN [quotes[i] EXCEPT !.is_expired = TRUE]
                              ELSE quotes[i]
           /\ ret'.value = Cardinality(hit)
           /\ ret.op = "expire_old_quotes" => ret'.value = 0]_vars

\* C13 witness: one sweep flagged two quotes of two companies
C13_SweptTwoCompanies ==
    /\ ret.op = "expire_old_quotes" /\ ret.value = 2
    /\ quotes[1].company_id # quotes[2].company_id
    /\ quotes[1].is_expired /\ quotes[2].is_expired

\* the quotes of a company created in the last days ticks whose expiry has
\* neither passed nor been flagged
LiveQuotes(company_id, days) ==
    {i \in DOMAIN quotes :
        /\ quotes[i].company_id = company_id
        /\ quotes[i].created_at >= now - days
        /\ ~quotes[i].is_expired /\ ~expiry_passed(quotes[i], now)}

\* C14: no read returns or counts as active a quote whose quote_expires_at
\* is before the current time, flagged or not: get_company_quotes without
\* include_expired and get_active_quotes never return one, and the
\* active_quotes of get_quote_statistics counts none.
C14_ReadsTreatPastExpiryAsExpired ==
    /\ (ret.op = "get_active_quotes" \/
        (ret.op = "get_company_quotes" /\ ret.value = 0)) =>
           \A i \in ret.rows : ~expiry_passed(quotes[i], now)
    /\ ret.op = "get_quote_statistics" =>
           ret.stats.active_quotes <=
               Cardinality(LiveQuotes(ret.quote, ret.value))

\* the quote rows a step added or changed
ChangedQuotes ==
    {i \in DOMAIN quotes' : i \notin DOMAIN quotes \/ quotes'[i] # quotes[i]}

\* C15: every step of request_quote, is_quote_valid or expire_old_quotes
\* that changes the quotes table adds one audit entry per logical action:
\* one for the quote requested, one for each quote whose flag it flipped.
C15_QuoteEngineChangeAudited ==
    [][(/\ ret'.op \in {"request_quote", "is_quote_valid",
                        "expire_old_quotes"}
        /\ quotes' # quotes)
       => Len(audit') = Len(audit) + Cardinality(ChangedQuotes)]_vars

\* C16: a request_quote that returns an error has added no quote row and
\* no audit row, whichever step failed, and every persisted quote has its
\* 'requested' audit entry.
C16_FailedRequestPersistsNothing ==
    [][(ret'.op = "request_quote" /\ ~ret'.ok)
       => /\ quotes' = quotes
          /\ audit' = audit
          /\ \A i \in DOMAIN quotes' :
                \E j \in DOMAIN audit' :
                   /\ audit'[j].entity_type = "fx_quote"
                   /\ audit'[j].entity_id = i
                   /\ audit'[j].action = "requested"]_vars

\* C17: a request_quote for two supported currency codes (a same-currency
\* pair included), any amount (0 included) and any validity window, whose
\* provider call and inserts go through, returns a quote and no error.
C17_SupportedRequestSucceeds ==
    [][ret'.op = "request_quote" =>
       \A c \in Companies, p \in CurrencyPairs, a \in QuoteAmounts,
          u \in Users, r \in AllProviderRates :
          (/\ upper(p[1]) \in BASE_RATES
           /\ upper(p[2]) \in BASE_RATES
           /\ RequestQuote(c, p[1], p[2], a, u, 2, r, "ok"))
          => /\ ret'.ok
             /\ ret'.error = ""
             /\ ret'.quote = Len(quotes')
             /\ Len(quotes') = Len(quotes) + 1]_vars

\* C18: when request_quote fails at the provider call for a reason other
\* than an unsupported currency, the error it returns is the generic
\* ProviderUnavailable and never the text of the exception raised.
C18_ProviderFailureIsGeneric ==
    (/\ ret.op = "request_quote"
     /\ ~ret.ok
     /\ ret.error \notin {"Unsupported source currency",
                          "Unsupported target currency", "db error"})
    => ret.error = "ProviderUnavailable"

\* a currency code no rate source knows, in whatever letter case
UnknownCode(code) == upper(code) \notin BASE_RATES

UnsupportedCurrency ==
    {"Unsupported source currency", "Unsupported target currency"}

\* C19: a rate request that names an unknown currency code fails with an
\* unsupported-currency error, sends no HTTP request and writes nothing,
\* at MockFXProvider (get_live_rate) and at FixerIOProvider alike; a
\* supported code in lower case is not taken for an unknown one.
C19_UnknownCurrencyFailsFast ==
    [][/\ \A p \in CurrencyPairs, r \in AllProviderRates :
             GetLiveRate(p[1], p[2], r) =>
                 IF UnknownCode(p[1]) \/ UnknownCode(p[2])
                 THEN /\ ~ret'.ok
                      /\ ret'.error \in UnsupportedCurrency
                      /\ fixer'.requests = fixer.requests
                      /\ quotes' = quotes /\ audit' = audit
                 ELSE ret'.ok
       /\ \A p \in FixerPairs, response \in Responses :
             FixerGetRate(p[1], p[2], response) =>
                 IF UnknownCode(p[1]) \/ UnknownCode(p[2])
                 THEN /\ ~ret'.ok
                      /\ ret'.error \in UnsupportedCurrency
                      /\ fixer'.requests = fixer.requests
                      /\ quotes' = quotes /\ audit' = audit
                 ELSE response = "ok" => ret'.ok]_vars

\* C20: for a supported currency X the rate of the pair (X, X) is exactly 1
\* with inverse 1, at get_live_rate and at FixerIOProvider.get_rate, and the
\* provider is not consulted for it: no HTTP request is sent.
C20_SameCurrencyIsIdentity ==
    [][/\ \A p \in CurrencyPairs, r \in AllProviderRates :
             (/\ ~UnknownCode(p[1])
              /\ upper(p[1]) = upper(p[2])
              /\ GetLiveRate(p[1], p[2], r))
             => /\ ret'.ok
                /\ ret'.value = RateScale
                /\ ret'.inverse_rate = RateScale
       /\ \A p \in FixerPairs, response \in Responses :
             (/\ ~UnknownCode(p[1])
              /\ upper(p[1]) = upper(p[2])
              /\ FixerGetRate(p[1], p[2], response))
             => /\ ret'.ok
                /\ ret'.value = FixerScale
                /\ fixer'.requests = fixer.requests]_vars

\* C21: get_quote_time_remaining returns 0 when the quote is invalid at
\* the time of its subtraction (flag set or expiry reached) and expiry - now
\* otherwise, and never a negative number, however much time passed since
\* its validity check.
C21_TimeRemainingNonNegative ==
    ret.op = "get_quote_time_remaining" =>
        LET quote == quotes[ret.quote]
        IN  /\ ret.value >= 0
            /\ ret.value =
                   IF quote.is_expired \/ now >= quote.quote_expires_at
                   THEN 0
                   ELSE quote.quote_expires_at - now

\* C21 witness: the validity check said valid, the expiry passed before the
\* subtraction, and 0 came back
C21_ExpiredBetweenCheckAndSubtraction ==
    /\ ret.op = "get_quote_time_remaining"
    /\ ret.ok
    /\ now > quotes[ret.quote].quote_expires_at
    /\ ret.value = 0

\* C22: get_rate_breakdown changes no persisted state (is_expired stays
\* as it was even when the expiry has passed) and returns the stored base
\* rate and final rate with inverse_rate = 1 / final_rate rounded to four
\* places.
C22_BreakdownIsPureRead ==
    [][\A q \in 1 .. MaxQuotes :
          GetRateBreakdown(q) =>
              /\ quotes' = quotes /\ audit' = audit
              /\ payments' = payments /\ approvals' = approvals
              /\ ret'.stats.base_rate = quotes[q].rate
              /\ ret'.stats.final_rate = quotes[q].final_rate
              /\ IsRoundHalfEven(ret'.stats.inverse_rate,
                                 RateScale * RateScale, quotes[q].final_rate)
      ]_vars

\* C22 witness: the breakdown of a quote whose expiry has passed and whose
\* flag is still unset
C22_BreakdownOfLapsedQuote ==
    /\ ret.op = "get_rate_breakdown"
    /\ expiry_passed(quotes[ret.quote], now)
    /\ ~quotes[ret.quote].is_expired

\* C23: calculate_amount(quote, a) changes no state and returns
\* target_amount = a * quote.final_rate rounded to two places and
\* markup_fee = target_amount - (a * quote.rate rounded to two places), both
\* from the stored fields of the quote passed in, whatever later quotes of
\* the pair say.
C23_AmountFromStoredQuote ==
    [][\A q \in 1 .. MaxQuotes, a \in SourceAmounts :
          CalculateAmount(q, a) =>
              /\ quotes' = quotes /\ audit' = audit
              /\ payments' = payments /\ approvals' = approvals
              /\ fixer' = fixer
              /\ ret'.stats.exchange_rate = quotes[q].final_rate
              /\ IsRoundHalfEven(ret'.stats.target_amount,
                                 a * quotes[q].final_rate, RateScale)
              /\ IsRoundHalfEven(
                     ret'.stats.target_amount - ret'.stats.markup_fee,
                     a * quotes[q].rate, RateScale)
      ]_vars

\* C23 witness: a conversion on the first quote after the provider's rate
\* has moved and a second quote of the pair carries another rate
C23_ConvertedAfterRateMoved ==
    /\ ret.op = "calculate_amount" /\ ret.quote = 1
    /\ Len(quotes) = 2
    /\ quotes[2].final_rate # quotes[1].final_rate
    /\ ret.stats.target_amount > 0

\* C24: every quote request_quote creates, whatever validity_seconds it
\* was given, expires strictly after it was created.
C24_ExpiryAfterCreation ==
    \A i \in DOMAIN quotes :
        quotes[i].quote_expires_at > quotes[i].created_at

\* C27: the audit trail is append-only: every step of the quote service
\* leaves the entries already written as they are, in their places, and
\* never makes the trail shorter.
C27_AuditAppendOnly ==
    [][/\ Len(audit') >= Len(audit)
       /\ SubSeq(audit', 1, Len(audit)) = audit]_vars

\* a second entry was written behind the first, and the sweep ran afterwards
C27_SecondEntryWritten ==
    /\ Len(audit) >= 2
    /\ audit[1].entity_id # audit[2].entity_id
    /\ ret.op = "expire_old_quotes"

\* what is_quote_valid would return for the row at time t
WouldBeValid(quote, t) == ~quote.is_expired /\ ~expiry_passed(quote, t)

\* C29: at every time get_active_quotes returns exactly the company's quotes
\* for which is_quote_valid would return true, and expire_old_quotes flips
\* exactly the unflagged quotes for which it would return false, also at the
\* instant of the expiry timestamp.
C29_OperationsAgreeOnValidity ==
    [][/\ \A c \in Companies :
              GetActiveQuotes(c, << >>) =>
                  ret'.rows = {i \in DOMAIN quotes :
                                  /\ quotes[i].company_id = c
                                  /\ WouldBeValid(quotes[i], now)}
       /\ ExpireOldQuotes =>
              \A i \in DOMAIN quotes :
                  (quotes'[i].is_expired # quotes[i].is_expired) <=>
                      (/\ ~quotes[i].is_expired
                       /\ ~WouldBeValid(quotes[i], now))]_vars

----------------------------------------------------------------------------
(* Properties of the payment pages *)

Approved == "Payment PAY-001 approved successfully!"
Rejected == "Payment PAY-001 rejected"
Submitted == "Payment submitted for approval!"

\* the expired flag is set or the expiry time has been reached
QuoteExpiredAt(quote, t) == quote.is_expired \/ t >= quote.quote_expires_at

\* C3: a decision (approve or reject) on a pending payment by the user who
\* created it fails with SelfApprovalForbidden, whatever the user's role,
\* and the payment stays in pending_approval.
C3_SelfDecisionForbidden ==
    \A s \in Sessions :
        (/\ ui[s].handler \in {"approve", "reject"}
         /\ payments[1].status = "pending_approval"
         /\ payments[1].created_by_user_id = ui[s].user_id)
        => /\ ui[s].msg = "SelfApprovalForbidden"
           /\ payments[1].status = "pending_approval"

\* C4: Submit succeeds exactly when the quote attached exists and is valid
\* at the time of the call; otherwise it fails with QuoteExpired.
C4_SubmitNeedsValidQuote ==
    \A s \in Sessions :
        ui[s].handler = "submit" =>
            IF /\ ui[s].quote \in DOMAIN quotes
               /\ ~QuoteExpiredAt(quotes[ui[s].quote], now)
            THEN ui[s].msg = Submitted
            ELSE ui[s].msg = "QuoteExpired"

\* C6: an approval by a checker other than the maker, of a pending payment
\* whose quote has expired, moves the payment to rejected with reason
\* "quote expired" and never reports it approved.
C6_ExpiredQuoteRejectsAtDecision ==
    [][\A s \in Sessions :
          (/\ ApprovePayment(s, TRUE)
           /\ payments[1].status = "pending_approval"
           /\ payments[1].created_by_user_id # ui[s].user_id
           /\ payments[1].fx_quote_id \in DOMAIN quotes
           /\ QuoteExpiredAt(quotes[payments[1].fx_quote_id], now))
          => /\ payments'[1].status = "rejected"
             /\ payments'[1].failure_reason = "quote expired"
             /\ ui'[s].msg # Approved]_vars

\* C7: of two decisions made at the same time on the same pending payment
\* by checkers other than its maker, only one succeeds; the other fails
\* with a stale-state error.
C7_OneDecisionWins ==
    \A s, t \in Sessions :
        (/\ s # t
         /\ payments[1].status = "pending_approval"
         /\ ui[s].user_id # payments[1].created_by_user_id
         /\ ui[t].user_id # payments[1].created_by_user_id
         /\ ui[s].handler \in {"approve", "reject"}
         /\ ui[t].handler \in {"approve", "reject"}
         /\ ui[s].msg \in {Approved, Rejected})
        => ui[t].msg \notin {Approved, Rejected}

\* C10: every successful submit, approve or reject writes exactly one audit
\* row for the payment with the transition's name, and every successful
\* approve or reject adds exactly one approval record.
C10_TransitionAudited ==
    [][\A s \in Sessions :
          (/\ ui'[s] # ui[s]
           /\ ui'[s].msg \in {Submitted, Approved, Rejected})
          => /\ Len(audit') = Len(audit) + 1
             /\ audit'[Len(audit')].entity_type = "payment"
             /\ audit'[Len(audit')].entity_id = payments[1].id
             /\ audit'[Len(audit')].action =
                    (CASE ui'[s].msg = Submitted -> "submitted"
                       [] ui'[s].msg = Approved -> "approved"
                       [] OTHER -> "rejected")
             /\ (ui'[s].msg \in {Approved, Rejected}
                    => Len(approvals') = Len(approvals) + 1)]_vars

C26_TotalDebitIsSourcePlusFee ==
    (out.done /\ "total_debit" \in DOMAIN out) =>
        out.total_debit = out.source_amount + out.fee

----------------------------------------------------------------------------
(* Properties of the bank accounts *)

DefaultAccounts(beneficiary_id) ==
    {i \in DOMAIN bank_accounts.rows :
        /\ bank_accounts.rows[i].beneficiary_id = beneficiary_id
        /\ bank_accounts.rows[i].is_default}

\* C28: at every moment each beneficiary has at most one bank account marked
\* is_default, whatever create, update and set_default calls run, one after
\* another or interleaved.
C28_AtMostOneDefault ==
    \A b \in Beneficiaries : Cardinality(DefaultAccounts(b)) <= 1

====
